---- MODULE Spec2Model ----
(***************************************************************************)
(* A model of the job-application helper scripts: the job-posting scraper  *)
(* (job_scraper.py), the resume analyser (resume_analizer.py) and the      *)
(* cover-letter generators (generate_cover_letter.py, cl_optimizer.py,     *)
(* cl_ai_optimizer.py).  Every public function is one action: the inputs   *)
(* and the behaviour of the collaborators (HTTP transport, HTML page,      *)
(* generation backend, uploaded file) are drawn in Init, the action runs   *)
(* the whole function and records what it returned or raised.              *)
(*                                                                         *)
(* Texts are sequences of one-character strings; a fixed message of the    *)
(* program is a one-element sequence holding the message.                  *)
(***************************************************************************)
EXTENDS Integers, Sequences, FiniteSets, TLC

VARIABLES
    call,       \* the kind of inputs drawn: "scrape", "analysis", "resume", "letter"
    pc,         \* "idle" before the call, "done" after it
    op,         \* the function that was called ("" before the call)
    job_url,    \* scrape_job_description / extract_job_details: the url argument
    fetch,      \* what requests.get does: "error" (RequestException) or a status code
    doc,        \* the parsed page: the elements of the document, in document order
    faulty,     \* the selector whose evaluation raises ("none": no selector raises)
    filename,   \* analyze_resume: resume.filename
    readOutcome,\* analyze_resume: what reading the resume does
    job_links,  \* analyze_resume: "json" (valid JSON) or "garbage"
    backend,    \* the generation backend's behaviour
    text,       \* response.text of the backend, a sequence of tokens
    jobsValue,  \* the value of the "jobs" member that token "J" stands for
    result,     \* what the call returned or raised
    netCalls,   \* number of requests.get calls issued
    fileReads,  \* number of reads of the resume's content
    backendCalls, \* number of generate_content calls
    parsedText, \* the text handed to json.loads (<<"-">> when none was)
    trace       \* generate_analysis / analyze_resume / generate_cover_letter: the steps
                \* the call went through, in order

vars == <<call, pc, op, job_url, fetch, doc, faulty, filename, readOutcome, job_links,
          backend, text, jobsValue, result, netCalls, fileReads, backendCalls,
          parsedText, trace>>

----------------------------------------------------------------------------
(* Bounds of the model *)

MaxUrlLen == 4      \* tokens in a url
MaxElems == 2       \* elements in a page
MaxTextLen == 4     \* tokens in a response of the backend
MaxJobs == 2        \* entries of a "jobs" list
MaxRecs == 4        \* items of a "recommendations" list

----------------------------------------------------------------------------
(* Sequences *)

\* The sequences over S of length at most n
SeqsUpTo(S, n) == UNION { [1..k -> S] : k \in 0..n }

Contains(s, x) == \E i \in 1..Len(s) : s[i] = x

\* str.find: the first index holding x, 0 when there is none
Find(s, x) == IF Contains(s, x) THEN CHOOSE i \in 1..Len(s) : s[i] = x /\ \A j \in 1..(i - 1) : s[j] # x
              ELSE 0

----------------------------------------------------------------------------
(* job_scraper.py: the url *)

\* The tokens a url is written with.  "http", "indeed.com" and "linkedin.com"
\* are runs of scheme characters (letters and "."); "//" and "[" are not.
UrlTokens == {"http", ":", "//", "[", "indeed.com", "linkedin.com"}
SchemeTokens == {"http", "indeed.com", "linkedin.com"}

\* urlparse(job_url): [raised, scheme, netloc].  The scheme is what precedes the first
\* ":" when that is a non-empty run of scheme characters; a "//" that follows
\* opens the network location, which ends at the next "/", and an unmatched
\* "[" in it raises ValueError.
UpTo(s, x) == IF Contains(s, x) THEN SubSeq(s, 1, Find(s, x) - 1) ELSE s
UrlParse(url) ==
    LET i == Find(url, ":")
        hasScheme == i > 1 /\ \A j \in 1..(i - 1) : url[j] \in SchemeTokens
        scheme == IF hasScheme THEN SubSeq(url, 1, i - 1) ELSE <<>>
        rest == IF hasScheme THEN SubSeq(url, i + 1, Len(url)) ELSE url
        netloc == IF Len(rest) >= 1 /\ rest[1] = "//" THEN UpTo(SubSeq(rest, 2, Len(rest)), "//") ELSE <<>>
    IN  [raised |-> Contains(netloc, "["), scheme |-> scheme, netloc |-> netloc]

\* platform of extract_job_details
Platform(url) ==
    IF Contains(url, "indeed.com") THEN "Indeed"
    ELSE IF Contains(url, "linkedin.com") THEN "LinkedIn"
    ELSE "Other"

----------------------------------------------------------------------------
(* job_scraper.py: the parsed page *)

\* An element of the page: its tag, its class attribute ("" when it has none),
\* another attribute written name=value ("" when none), the class of the div
\* that contains it ("" when none) and its text.
Shapes == {
    [tag |-> "h1",    cls |-> "top-card-layout__title",         attr |-> "", parent |-> ""],
    [tag |-> "h1",    cls |-> "",                               attr |-> "", parent |-> ""],
    [tag |-> "h1",    cls |-> "job-title",                      attr |-> "", parent |-> ""],
    [tag |-> "h1",    cls |-> "jobsearch-JobInfoHeader-title",  attr |-> "", parent |-> ""],
    [tag |-> "title", cls |-> "",                               attr |-> "", parent |-> ""],
    [tag |-> "a",     cls |-> "company-name-link",              attr |-> "", parent |-> ""],
    [tag |-> "div",   cls |-> "",  attr |-> "data-company-name=true",        parent |-> ""],
    [tag |-> "span",  cls |-> "company-name",                   attr |-> "", parent |-> ""],
    [tag |-> "div",   cls |-> "job-description",                attr |-> "", parent |-> ""] }

PlainDiv == [tag |-> "div", cls |-> "", attr |-> "", parent |-> ""]
PlainH1 == [tag |-> "h1", cls |-> "", attr |-> "", parent |-> ""]

\* The texts an element may hold: none, a padded word, a word; a div and an h1
\* may also hold a heading of the posting.
Texts == { <<>>, <<" ", "B", " ">>, <<"A">> }
Headings == { <<"About The Role", " ">>, <<"A">> }

Elements == { [tag |-> s.tag, cls |-> s.cls, attr |-> s.attr, parent |-> s.parent, text |-> t] :
              s \in Shapes, t \in Texts }
        \cup { [tag |-> PlainDiv.tag, cls |-> PlainDiv.cls, attr |-> PlainDiv.attr,
                parent |-> PlainDiv.parent, text |-> t] : t \in Headings }
        \cup { [tag |-> PlainH1.tag, cls |-> PlainH1.cls, attr |-> PlainH1.attr,
                parent |-> PlainH1.parent, text |-> t] : t \in Headings \ Texts }

\* str.lower(), character by character
LowerChar(c) ==
    CASE c = "A" -> "a"
      [] c = "B" -> "b"
      [] c = "About The Role" -> "about the role"
      [] c = "P" -> "p" [] c = "D" -> "d" [] c = "F" -> "f" [] c = "T" -> "t" [] c = "X" -> "x"
      [] OTHER -> c
Lower(t) == [i \in 1..Len(t) |-> LowerChar(t[i])]

\* The classes of the pages that contain the given text ([class*="..."])
ClassesContaining(sub) ==
    CASE sub = "company" -> {"company-name", "company-name-link"}
      [] sub = "employer" -> {"employer-name"}
      [] sub = "job-description" -> {"job-description"}
      [] OTHER -> {}

\* What each CSS selector of the program asks of an element: the tag ("*": any),
\* the class, a text the class attribute contains, an attribute, the class of a
\* containing div.
Selector(sel) ==
    LET any == [tag |-> "*", cls |-> "", sub |-> "", attr |-> "", parent |-> ""]
    IN CASE sel = "h1.jobsearch-JobInfoHeader-title" -> [any EXCEPT !.tag = "h1", !.cls = "jobsearch-JobInfoHeader-title"]
         [] sel = "div.jobsearch-JobInfoHeader-title-container h1" -> [any EXCEPT !.tag = "h1", !.parent = "jobsearch-JobInfoHeader-title-container"]
         [] sel = "h1.icl-u-xs-mb--xs" -> [any EXCEPT !.tag = "h1", !.cls = "icl-u-xs-mb--xs"]
         [] sel = "h1.top-card-layout__title" -> [any EXCEPT !.tag = "h1", !.cls = "top-card-layout__title"]
         [] sel = "h1.job-details-jobs-unified-top-card__job-title" -> [any EXCEPT !.tag = "h1", !.cls = "job-details-jobs-unified-top-card__job-title"]
         [] sel = "h1.topcard__title" -> [any EXCEPT !.tag = "h1", !.cls = "topcard__title"]
         [] sel = "h1" -> [any EXCEPT !.tag = "h1"]
         [] sel = "h1.job-title" -> [any EXCEPT !.tag = "h1", !.cls = "job-title"]
         [] sel = "div.job-title" -> [any EXCEPT !.tag = "div", !.cls = "job-title"]
         [] sel = "title" -> [any EXCEPT !.tag = "title"]
         [] sel = "div[data-company-name=true]" -> [any EXCEPT !.tag = "div", !.attr = "data-company-name=true"]
         [] sel = "div.jobsearch-CompanyInfoContainer span.jobsearch-CompanyInfoWithoutHeaderImage" ->
                [any EXCEPT !.tag = "span", !.cls = "jobsearch-CompanyInfoWithoutHeaderImage", !.parent = "jobsearch-CompanyInfoContainer"]
         [] sel = "div.jobsearch-InlineCompanyRating > div:first-child" -> [any EXCEPT !.tag = "div", !.parent = "jobsearch-InlineCompanyRating"]
         [] sel = "a.company-name-link" -> [any EXCEPT !.tag = "a", !.cls = "company-name-link"]
         [] sel = "a[data-tracking-control-name=public_jobs_topcard-org-name]" -> [any EXCEPT !.tag = "a", !.attr = "data-tracking-control-name=public_jobs_topcard-org-name"]
         [] sel = "span.topcard__flavor" -> [any EXCEPT !.tag = "span", !.cls = "topcard__flavor"]
         [] sel = "a.sub-nav-cta__optional-url" -> [any EXCEPT !.tag = "a", !.cls = "sub-nav-cta__optional-url"]
         [] sel = "div[class*=company]" -> [any EXCEPT !.tag = "div", !.sub = "company"]
         [] sel = "span[class*=company]" -> [any EXCEPT !.tag = "span", !.sub = "company"]
         [] sel = "div[class*=employer]" -> [any EXCEPT !.tag = "div", !.sub = "employer"]
         [] sel = "span[class*=employer]" -> [any EXCEPT !.tag = "span", !.sub = "employer"]
         [] sel = "div.job-description" -> [any EXCEPT !.tag = "div", !.cls = "job-description"]
         [] sel = "div[data-automation=jobDescription]" -> [any EXCEPT !.tag = "div", !.attr = "data-automation=jobDescription"]
         [] sel = "#job-description" -> [any EXCEPT !.attr = "id=job-description"]
         [] sel = ".description__text" -> [any EXCEPT !.cls = "description__text"]
         [] sel = "div.description" -> [any EXCEPT !.tag = "div", !.cls = "description"]
         [] sel = "div[class*=jobsearch-jobDescriptionText]" -> [any EXCEPT !.tag = "div", !.sub = "jobsearch-jobDescriptionText"]
         [] sel = "div[class*=show-more-less-html]" -> [any EXCEPT !.tag = "div", !.sub = "show-more-less-html"]
         [] sel = "div[class*=job-description]" -> [any EXCEPT !.tag = "div", !.sub = "job-description"]

MatchesQuery(q, el) ==
    /\ q.tag \in {"*", el.tag}
    /\ q.cls \in {"", el.cls}
    /\ q.sub = "" \/ el.cls \in ClassesContaining(q.sub)
    /\ q.attr \in {"", el.attr}
    /\ q.parent \in {"", el.parent}

Matches(sel, el) == MatchesQuery(Selector(sel), el)

\* The least index of a set of indices, 0 when the set is empty
FirstIndex(hits) == IF hits = {} THEN 0 ELSE CHOOSE i \in hits : \A j \in hits : i <= j

\* soup.select_one(selector): the index of the first element of the document
\* that matches, 0 (None) when no element does
SelectOne(elems, sel) == FirstIndex({i \in 1..Len(elems) : Matches(sel, elems[i])})

\* str.strip(): the text without its leading and trailing blanks
RECURSIVE LStrip(_)
LStrip(t) == IF t # <<>> /\ Head(t) = " " THEN LStrip(Tail(t)) ELSE t
RECURSIVE RStrip(_)
RStrip(t) == IF t # <<>> /\ t[Len(t)] = " " THEN RStrip(SubSeq(t, 1, Len(t) - 1)) ELSE t
Strip(t) == RStrip(LStrip(t))

----------------------------------------------------------------------------
(* job_scraper.py: extract_job_details *)

PositionNotFound == <<"Position Not Found">>
CompanyNotFound == <<"Company Not Found">>

title_selectors ==
    [indeed |-> <<"h1.jobsearch-JobInfoHeader-title", "div.jobsearch-JobInfoHeader-title-container h1", "h1.icl-u-xs-mb--xs">>,
     linkedin |-> <<"h1.top-card-layout__title", "h1.job-details-jobs-unified-top-card__job-title", "h1.topcard__title">>,
     generic |-> <<"h1", "h1.job-title", "div.job-title", "title">>]

company_selectors ==
    [indeed |-> <<"div[data-company-name=true]",
                  "div.jobsearch-CompanyInfoContainer span.jobsearch-CompanyInfoWithoutHeaderImage",
                  "div.jobsearch-InlineCompanyRating > div:first-child">>,
     linkedin |-> <<"a.company-name-link", "a[data-tracking-control-name=public_jobs_topcard-org-name]",
                    "span.topcard__flavor", "a.sub-nav-cta__optional-url">>,
     generic |-> <<"div[class*=company]", "span[class*=company]", "div[class*=employer]", "span[class*=employer]">>]

\* "element and element.text.strip()": the stripped text of the element
\* select_one found, <<>> when it found none
StrippedText(elems, e) == IF e = 0 THEN <<>> ELSE Strip(elems[e].text)

\* "if element and element.text.strip(): value = ...; break", else the rest of the loop
TakeOrContinue(val, rest) == IF val # <<>> THEN [raised |-> FALSE, val |-> val] ELSE rest

\* One "for selector in ...: element = soup.select_one(selector); ..." loop, from
\* the i-th selector on: [raised, val], val = <<>> when the loop ends without a value.
RECURSIVE TrySelectors(_, _, _)
TrySelectors(soup, sels, i) ==
    IF i > Len(sels) THEN [raised |-> FALSE, val |-> <<>>]
    ELSE IF sels[i] = soup.faulty THEN [raised |-> TRUE, val |-> <<>>]
    ELSE TakeOrContinue(StrippedText(soup.elems, SelectOne(soup.elems, sels[i])),
                        TrySelectors(soup, sels, i + 1))

\* "if "indeed.com" in url: ... elif "linkedin.com" in url: ...": the selectors of
\* the platform-specific loop
PlatformSelectors(url, table) ==
    IF Contains(url, "indeed.com") THEN table.indeed
    ELSE IF Contains(url, "linkedin.com") THEN table.linkedin
    ELSE <<>>

\* ThenGeneric without the generic loop
ThenGenericNoFallback(first, soup, table) == first

\* "if not job_title: for selector in ...["generic"]"
ThenGeneric(first, soup, table) ==
    IF first.raised \/ first.val # <<>> THEN first ELSE TrySelectors(soup, table.generic, 1)

\* The platform-specific loop, then the generic loop when it found nothing.
Cascade(soup, url, table) ==
    ThenGeneric(TrySelectors(soup, PlatformSelectors(url, table), 1), soup, table)

\* Details with an exception downgrading only the field whose loop raised
DetailsPerField(title, company, platform) ==
    [kind |-> "return",
     job_title |-> IF title.val # <<>> THEN title.val ELSE PositionNotFound,
     company_name |-> IF company.val # <<>> THEN company.val ELSE CompanyNotFound,
     platform |-> platform]

\* The return statements of extract_job_details (kind: the call returned)
Details(title, company, platform) ==
    IF title.raised \/ company.raised
    THEN [kind |-> "return", job_title |-> PositionNotFound, company_name |-> CompanyNotFound,
          platform |-> platform]
    ELSE [kind |-> "return",
          job_title |-> IF title.val # <<>> THEN title.val ELSE PositionNotFound,
          company_name |-> IF company.val # <<>> THEN company.val ELSE CompanyNotFound,
          platform |-> platform]

ExtractDetails(soup, url) ==
    Details(Cascade(soup, url, title_selectors), Cascade(soup, url, company_selectors), Platform(url))

----------------------------------------------------------------------------
(* job_scraper.py: scrape_job_description *)

InvalidUrlError == <<"Invalid URL provided">>
ForbiddenDescription == <<"Unable to automatically fetch job description. Please enter the job description manually.">>
NoDescription == <<"Unable to automatically extract job description. Please enter the job description manually.">>
RequestErrorDescription == <<"Unable to fetch job description. Please enter it manually.">>
UnexpectedErrorDescription == <<"Error accessing job posting. Please enter the job description manually.">>

description_selectors ==
    <<"div.job-description", "div[data-automation=jobDescription]", "#job-description",
      ".description__text", "div.description", "div[class*=jobsearch-jobDescriptionText]",
      "div[class*=show-more-less-html]", "div[class*=job-description]">>

description_keywords == {"job description", "about this role", "about the role"}

\* The value a call returns: the keys of the returned dict.  A key the dict
\* does not hold is <<>> (a text), "" (platform) or FALSE (requires_manual_entry).
ScrapeFailure(msg) ==
    [kind |-> "return", success |-> FALSE, error |-> msg, description |-> <<>>,
     job_title |-> <<>>, company_name |-> <<>>, platform |-> "", requires_manual_entry |-> FALSE]

ManualEntry(msg) ==
    [kind |-> "return", success |-> TRUE, error |-> <<>>, description |-> msg,
     job_title |-> PositionNotFound, company_name |-> CompanyNotFound, platform |-> "Unknown",
     requires_manual_entry |-> TRUE]

Scraped(description, details, manual) ==
    [kind |-> "return", success |-> TRUE, error |-> <<>>, description |-> description,
     job_title |-> details.job_title, company_name |-> details.company_name,
     platform |-> details.platform, requires_manual_entry |-> manual]

\* ReturnOrContinue returning only a description that is not empty once stripped
ReturnOrContinueNonEmpty(elems, e, rest) ==
    IF e # 0 /\ Strip(elems[e].text) # <<>>
    THEN [raised |-> FALSE, found |-> TRUE, val |-> Strip(elems[e].text)]
    ELSE rest

\* "if job_description: return ...", else the rest of the loop
ReturnOrContinue(elems, e, rest) ==
    IF e # 0 THEN [raised |-> FALSE, found |-> TRUE, val |-> Strip(elems[e].text)] ELSE rest

\* "for selector in description_selectors: job_description = soup.select_one(selector);
\* if job_description: return ...", from the i-th selector on: [raised, found, val]
RECURSIVE TryDescription(_, _)
TryDescription(soup, i) ==
    IF i > Len(description_selectors) THEN [raised |-> FALSE, found |-> FALSE, val |-> <<>>]
    ELSE IF description_selectors[i] = soup.faulty THEN [raised |-> TRUE, found |-> FALSE, val |-> <<>>]
    ELSE ReturnOrContinue(soup.elems, SelectOne(soup.elems, description_selectors[i]),
                          TryDescription(soup, i + 1))

\* soup.find(lambda tag: tag.name == "div" and any(keyword in tag.get_text().lower() ...)):
\* the index of the first such div, 0 when there is none
HasKeyword(el) == el.tag = "div" /\ \E k \in description_keywords : Contains(Lower(el.text), k)
FindByContent(elems) == FirstIndex({i \in 1..Len(elems) : HasKeyword(elems[i])})

\* response.raise_for_status() raises HTTPError for the 4xx and 5xx statuses
RaiseForStatus(status) == 400 <= status /\ status < 600

\* The returns that follow the extraction of the details
DescribePage(elems, details, d, c) ==
    IF d.raised THEN ManualEntry(UnexpectedErrorDescription)
    ELSE IF d.found THEN Scraped(d.val, details, FALSE)
    ELSE IF c # 0 THEN Scraped(Strip(elems[c].text), details, FALSE)
    ELSE Scraped(NoDescription, details, TRUE)

\* The part of scrape_job_description that follows a response that passed
\* raise_for_status(): parse, extract the details, find the description.
ScrapePage(soup, url) ==
    DescribePage(soup.elems, ExtractDetails(soup, url), TryDescription(soup, 1), FindByContent(soup.elems))

\* The part of scrape_job_description that follows the parsing of the url
ScrapeParsed(url, parsed, outcome, soup) ==
    IF url = <<>> THEN [result |-> ScrapeFailure(InvalidUrlError), requests |-> 0]
    ELSE IF parsed.raised THEN [result |-> ManualEntry(UnexpectedErrorDescription), requests |-> 0]
    ELSE IF parsed.scheme = <<>> THEN [result |-> ScrapeFailure(InvalidUrlError), requests |-> 0]
    ELSE IF outcome.raised THEN [result |-> ManualEntry(RequestErrorDescription), requests |-> 1]
    ELSE IF outcome.status = 403 THEN [result |-> ManualEntry(ForbiddenDescription), requests |-> 1]
    ELSE IF RaiseForStatus(outcome.status) THEN [result |-> ManualEntry(RequestErrorDescription), requests |-> 1]
    ELSE [result |-> ScrapePage(soup, url), requests |-> 1]

\* scrape_job_description(job_url): [result, requests], requests being the
\* number of requests.get calls it issued
ScrapeJobDescription(url, outcome, soup) == ScrapeParsed(url, UrlParse(url), outcome, soup)

----------------------------------------------------------------------------
(* resume_analizer.py: the backend's response and its JSON *)

\* A response is written with these tokens: "{" and "}", "J" (the member
\* "jobs": <jobsValue>), "k" (a key other than "jobs" and its colon, an object
\* follows) and "p" (a character of prose).
TextTokens == {"{", "}", "J", "k", "p"}

FindLast(s, x) == IF Contains(s, x) THEN CHOOSE i \in 1..Len(s) : s[i] = x /\ \A j \in (i + 1)..Len(s) : s[j] # x
                  ELSE 0

\* re.search(r"({[\s\S]*})", text): the greedy match runs from the first "{"
\* to the last "}" of the text; [found, group]
RegexSearch(t) ==
    LET i == Find(t, "{")
        j == FindLast(t, "}")
    IN  IF i # 0 /\ j > i THEN [found |-> TRUE, group |-> SubSeq(t, i, j)]
        ELSE [found |-> FALSE, group |-> <<>>]

\* json.loads on the tokens: an object is "{", members, "}", a member is "J"
\* or "k" followed by an object.  ParseObject(t, i) is the position after the
\* object that starts at i, 0 when none starts there.
RECURSIVE ParseObject(_, _), ParseMembers(_, _)
ParseObject(t, i) == IF i <= Len(t) /\ t[i] = "{" THEN ParseMembers(t, i + 1) ELSE 0
ParseMembers(t, i) ==
    IF i > Len(t) THEN 0
    ELSE IF t[i] = "}" THEN i + 1
    ELSE IF t[i] = "J" THEN ParseMembers(t, i + 1)
    ELSE IF t[i] = "k" THEN LET n == ParseObject(t, i + 1) IN IF n = 0 THEN 0 ELSE ParseMembers(t, n)
    ELSE 0

\* The nesting depth of position i: the "{" minus the "}" that precede it
Depth(t, i) == Cardinality({j \in 1..(i - 1) : t[j] = "{"}) - Cardinality({j \in 1..(i - 1) : t[j] = "}"})

\* json.loads(t): [raised (JSONDecodeError), hasJobs ("jobs" in the object)]
JsonLoads(t) ==
    IF ParseObject(t, 1) = Len(t) + 1
    THEN [raised |-> FALSE, hasJobs |-> \E i \in 1..Len(t) : t[i] = "J" /\ Depth(t, i) = 1]
    ELSE [raised |-> TRUE, hasJobs |-> FALSE]

----------------------------------------------------------------------------
(* resume_analizer.py: the value of "jobs" *)

\* A JSON value is [type, items]: the entries of a list, the characters of a
\* string, the keys of an object; a number and null hold no items.
JsonValue(type, items) == [type |-> type, items |-> items]
NoJobs == JsonValue("none", <<>>)

FallbackRecommendations ==
    <<"Highlight relevant project achievements", "Quantify your impact with metrics",
      "Add specific examples of team leadership">>

\* An entry of the list: a dict with or without the keys recommendations,
\* job_title and company_name (has...: the key is present), or not a dict.
Entry(hasRecs, recs, hasTitle, title, hasCompany, company) ==
    [isDict |-> TRUE, hasRecs |-> hasRecs, recommendations |-> recs,
     hasTitle |-> hasTitle, job_title |-> title, hasCompany |-> hasCompany, company_name |-> company,
     match_percentage |-> 80]
NotADict == [isDict |-> FALSE, hasRecs |-> FALSE, recommendations |-> <<>>,
             hasTitle |-> FALSE, job_title |-> <<>>, hasCompany |-> FALSE, company_name |-> <<>>,
             match_percentage |-> 0]

RecsOfLen(n) == [i \in 1..n |-> "backend recommendation"]

\* NormaliseJob with the fallback recommendations replacing any list of fewer than 3
NormaliseJobPadding(job) ==
    [job EXCEPT !.hasRecs = TRUE,
                !.recommendations = IF Len(job.recommendations) < 3 THEN FallbackRecommendations
                                    ELSE job.recommendations,
                !.hasTitle = TRUE,
                !.job_title = IF ~job.hasTitle \/ job.job_title = <<>> THEN <<"Position">> ELSE job.job_title,
                !.hasCompany = TRUE,
                !.company_name = IF ~job.hasCompany \/ job.company_name = <<>> THEN <<"Company">>
                                 ELSE job.company_name]

\* The "for job in analysis["jobs"]" body on a dict
NormaliseJob(job) ==
    LET recs == IF ~job.hasRecs \/ job.recommendations = <<>> THEN FallbackRecommendations
                ELSE job.recommendations
        title == IF ~job.hasTitle \/ job.job_title = <<>> THEN <<"Position">> ELSE job.job_title
        company == IF ~job.hasCompany \/ job.company_name = <<>> THEN <<"Company">> ELSE job.company_name
    IN  [job EXCEPT !.hasRecs = TRUE, !.recommendations = recs, !.hasTitle = TRUE, !.job_title = title,
                    !.hasCompany = TRUE, !.company_name = company]

\* The loop over analysis["jobs"]: [raised (the exception's name, "" when none), jobs]
NormaliseJobs(v) ==
    IF v.type \in {"number", "null"} THEN [raised |-> "TypeError", jobs |-> NoJobs]
    ELSE IF v.type \in {"string", "object"}
    THEN IF v.items = <<>> THEN [raised |-> "", jobs |-> v]
         ELSE [raised |-> "AttributeError", jobs |-> NoJobs]
    ELSE IF \E i \in 1..Len(v.items) : ~v.items[i].isDict THEN [raised |-> "AttributeError", jobs |-> NoJobs]
    ELSE [raised |-> "", jobs |-> JsonValue("list", [i \in 1..Len(v.items) |-> NormaliseJob(v.items[i])])]

----------------------------------------------------------------------------
(* The generation backend *)

\* What the backend does: genai.GenerativeModel raises, generate_content
\* raises, the response is None, reading response.text raises, or the
\* response holds a text (which may be empty).
Backends == {"construct_raises", "generate_raises", "none", "text_raises", "text"}

\* The value a function of the generation layer returns or raises.  envelope:
\* the value is a {success, ...} dict; error: the message, the name of the
\* exception after it when the message ends with str(e); for a raise, the
\* exception's name.
Failure(msg) == [kind |-> "return", envelope |-> TRUE, success |-> FALSE, error |-> msg,
                 jobs |-> NoJobs, payload |-> <<>>]
Success(jobs, payload) == [kind |-> "return", envelope |-> TRUE, success |-> TRUE, error |-> <<>>,
                           jobs |-> jobs, payload |-> payload]
Raised(exc) == [kind |-> "raise", envelope |-> FALSE, success |-> FALSE, error |-> <<exc>>,
                jobs |-> NoJobs, payload |-> <<>>]
BareText(t) == [kind |-> "return", envelope |-> FALSE, success |-> FALSE, error |-> <<>>,
                jobs |-> NoJobs, payload |-> t]

NotParsed == <<"-">>

\* The stage a generation request is in: "Idle" before generate_content is
\* called, "Requested" once it was, then the stage of the return statement
\* reached: the except clause is "BackendError", the `if not response` return
\* "EmptyResponse", the `if not json_match` return "Malformed", the structure
\* check's return "StructurallyInvalid"; past that check the response is
\* "ParsedOK", past the loop "Normalized".  A return of success: False is
\* "Failed", a return of success: True "Succeeded".
Requested == <<"Idle", "Requested">>
FailedAt(stage) == <<stage, "Failed">>

\* generate_analysis(resume_content, job_links): [result, calls (generate_content
\* calls), parsed (the text given to json.loads), trace (the stages)]
GenerateAnalysisOf(b, t, v) ==
    IF b = "construct_raises"
    THEN [result |-> Raised("BackendError"), calls |-> 0, parsed |-> NotParsed, trace |-> <<"Idle">>]
    ELSE IF b = "generate_raises"
    THEN [result |-> Failure(<<"Error generating analysis: ", "BackendError">>), calls |-> 1, parsed |-> NotParsed,
          trace |-> Requested \o FailedAt("BackendError")]
    ELSE IF b = "none"
    THEN [result |-> Failure(<<"No response from AI model">>), calls |-> 1, parsed |-> NotParsed,
          trace |-> Requested \o FailedAt("EmptyResponse")]
    ELSE IF b = "text_raises"
    THEN [result |-> Failure(<<"Error generating analysis: ", "ValueError">>), calls |-> 1, parsed |-> NotParsed,
          trace |-> Requested \o FailedAt("BackendError")]
    ELSE IF t = <<>>
    THEN [result |-> Failure(<<"No response from AI model">>), calls |-> 1, parsed |-> NotParsed,
          trace |-> Requested \o FailedAt("EmptyResponse")]
    ELSE LET m == RegexSearch(t)
             analysis == JsonLoads(m.group)
             normal == NormaliseJobs(v)
         IN  IF ~m.found
             THEN [result |-> Failure(<<"Invalid response format">>), calls |-> 1, parsed |-> NotParsed,
                   trace |-> Requested \o FailedAt("Malformed")]
             ELSE IF analysis.raised
             THEN [result |-> Failure(<<"Error generating analysis: ", "JSONDecodeError">>), calls |-> 1,
                   parsed |-> m.group, trace |-> Requested \o FailedAt("BackendError")]
             ELSE IF ~analysis.hasJobs
             THEN [result |-> Failure(<<"Invalid response structure">>), calls |-> 1, parsed |-> m.group,
                   trace |-> Requested \o FailedAt("StructurallyInvalid")]
             ELSE IF normal.raised # ""
             THEN [result |-> Failure(<<"Error generating analysis: ", normal.raised>>), calls |-> 1,
                   parsed |-> m.group, trace |-> Requested \o <<"ParsedOK">> \o FailedAt("BackendError")]
             ELSE [result |-> Success(normal.jobs, <<>>), calls |-> 1, parsed |-> m.group,
                   trace |-> Requested \o <<"ParsedOK", "Normalized", "Succeeded">>]

\* generate_resume_review(resume_content, job_description): json.loads is given
\* the whole response.text
GenerateResumeReviewOf(b, t) ==
    IF b \in {"construct_raises", "generate_raises"}
    THEN [result |-> Failure(<<"Error generating resume review: ", "BackendError">>),
          calls |-> IF b = "generate_raises" THEN 1 ELSE 0, parsed |-> NotParsed]
    ELSE IF b = "text_raises"
    THEN [result |-> Failure(<<"Error generating resume review: ", "ValueError">>), calls |-> 1, parsed |-> NotParsed]
    ELSE IF b = "none" \/ t = <<>>
    THEN [result |-> Failure(<<"Failed to generate resume review">>), calls |-> 1, parsed |-> NotParsed]
    ELSE IF JsonLoads(t).raised
    THEN [result |-> Failure(<<"Invalid response format from AI model">>), calls |-> 1, parsed |-> t]
    ELSE [result |-> Success(NoJobs, t), calls |-> 1, parsed |-> t]

----------------------------------------------------------------------------
(* resume_analizer.py: analyze_resume *)

\* EndsWith as a test of containment ("suffix in s")
EndsWithAnywhere(s, suffix) ==
    \E i \in 1..Len(s) : i + Len(suffix) - 1 <= Len(s) /\ SubSeq(s, i, i + Len(suffix) - 1) = suffix

\* str.endswith
EndsWith(s, suffix) ==
    Len(s) >= Len(suffix) /\ SubSeq(s, Len(s) - Len(suffix) + 1, Len(s)) = suffix

PdfSuffix == <<".", "p", "d", "f">>
TxtSuffix == <<".", "t", "x", "t">>

UnsupportedFormat == <<"Unsupported file format. Please upload a PDF or TXT file.">>

\* What reading the resume does: "ok", "value_error" (an unreadable PDF, bytes
\* that are not UTF-8) or "io_error" (read() itself raises)
ReadOutcomes == {"ok", "value_error", "io_error"}

\* The decoding branch of analyze_resume: [returned (the branch returned or
\* raised out of the inner try), result, reads]
ReadResume(name, outcome) ==
    LET lowered == Lower(name)
    IN  IF EndsWith(lowered, PdfSuffix)
        THEN IF outcome = "ok" THEN [returned |-> FALSE, result |-> Failure(<<>>), reads |-> 1]
             ELSE [returned |-> TRUE, result |-> Failure(<<"Error reading PDF: ", outcome>>), reads |-> 1]
        ELSE IF EndsWith(lowered, TxtSuffix)
        THEN IF outcome = "ok" THEN [returned |-> FALSE, result |-> Failure(<<>>), reads |-> 1]
             ELSE IF outcome = "value_error"
             THEN [returned |-> TRUE, result |-> Failure(<<"", "UnicodeDecodeError">>), reads |-> 1]
             ELSE [returned |-> TRUE, result |-> Failure(<<"Error analyzing resume: ", outcome>>), reads |-> 1]
        ELSE [returned |-> TRUE, result |-> Failure(UnsupportedFormat), reads |-> 0]

\* AnalyzeResumeOf parsing job_links before it decodes the resume
AnalyzeResumeLinksFirst(name, outcome, links, b, t, v) ==
    LET r == ReadResume(name, outcome)
        g == GenerateAnalysisOf(b, t, v)
        decode == IF r.reads > 0 THEN <<"decode">> ELSE <<>>
    IN  IF links # "json"
        THEN [result |-> Failure(<<"Invalid job links format">>), reads |-> 0, calls |-> 0,
              parsed |-> NotParsed, trace |-> <<"parse_links">>]
        ELSE IF r.returned
        THEN [result |-> r.result, reads |-> r.reads, calls |-> 0, parsed |-> NotParsed,
              trace |-> <<"parse_links">> \o decode]
        ELSE IF g.result.kind = "raise"
        THEN [result |-> Failure(<<"Error analyzing resume: ">> \o g.result.error), reads |-> r.reads,
              calls |-> g.calls, parsed |-> g.parsed, trace |-> <<"parse_links">> \o decode \o g.trace]
        ELSE [result |-> g.result, reads |-> r.reads, calls |-> g.calls, parsed |-> g.parsed,
              trace |-> <<"parse_links">> \o decode \o g.trace]

\* analyze_resume(resume, job_links): [result, reads, calls, parsed, trace ("decode":
\* the resume's content is read and decoded, "parse_links": json.loads(job_links),
\* then the stages of generate_analysis)]
AnalyzeResumeOf(name, outcome, links, b, t, v) ==
    LET r == ReadResume(name, outcome)
        g == GenerateAnalysisOf(b, t, v)
        decode == IF r.reads > 0 THEN <<"decode">> ELSE <<>>
    IN  IF r.returned
        THEN [result |-> r.result, reads |-> r.reads, calls |-> 0, parsed |-> NotParsed, trace |-> decode]
        ELSE IF links # "json"
        THEN [result |-> Failure(<<"Invalid job links format">>), reads |-> r.reads, calls |-> 0,
              parsed |-> NotParsed, trace |-> decode \o <<"parse_links">>]
        ELSE IF g.result.kind = "raise"
        THEN [result |-> Failure(<<"Error analyzing resume: ">> \o g.result.error), reads |-> r.reads,
              calls |-> g.calls, parsed |-> g.parsed, trace |-> decode \o <<"parse_links">> \o g.trace]
        ELSE [result |-> g.result, reads |-> r.reads, calls |-> g.calls, parsed |-> g.parsed,
              trace |-> decode \o <<"parse_links">> \o g.trace]

----------------------------------------------------------------------------
(* generate_cover_letter.py, cl_optimizer.py, cl_ai_optimizer.py *)

\* generate_cover_letter(job_link): the stripped text is the product, there is
\* nothing to parse or normalise
GenerateCoverLetterOf(b, t) ==
    IF b = "construct_raises"
    THEN [result |-> Failure(<<"Error generating cover letter: ", "BackendError">>), calls |-> 0,
          trace |-> <<"Idle">> \o FailedAt("BackendError")]
    ELSE IF b \in {"generate_raises", "text_raises"}
    THEN [result |-> Failure(<<"Error generating cover letter: ",
                              IF b = "text_raises" THEN "ValueError" ELSE "BackendError">>), calls |-> 1,
          trace |-> Requested \o FailedAt("BackendError")]
    ELSE IF b = "none" \/ t = <<>>
    THEN [result |-> Failure(<<"Failed to generate cover letter">>), calls |-> 1,
          trace |-> Requested \o FailedAt("EmptyResponse")]
    ELSE [result |-> Success(NoJobs, Strip(t)), calls |-> 1, trace |-> Requested \o <<"Succeeded">>]

\* gemini_get(prompt, model) and optimize_cover_letter(cover_letter): no
\* exception is handled; print(response.text) reads the text of the response
GeminiGetOf(b, t) ==
    IF b = "construct_raises" THEN [result |-> Raised("BackendError"), calls |-> 0]
    ELSE IF b = "generate_raises" THEN [result |-> Raised("BackendError"), calls |-> 1]
    ELSE IF b = "none" THEN [result |-> Raised("AttributeError"), calls |-> 1]
    ELSE IF b = "text_raises" THEN [result |-> Raised("ValueError"), calls |-> 1]
    ELSE IF t = <<>> THEN [result |-> BareText(<<"Error optimizing cover letter.">>), calls |-> 1]
    ELSE [result |-> BareText(t), calls |-> 1]

OptimizeCoverLetterOf(b, t) == GeminiGetOf(b, t)

----------------------------------------------------------------------------
(* The inputs *)

Urls == SeqsUpTo(UrlTokens, MaxUrlLen)
PlatformUrls == { <<"http", ":", "//", "indeed.com">>, <<"http", ":", "//", "linkedin.com">>,
                  <<"http", ":", "//", "http">> }

\* requests.get: a RequestException, or a response with a status
Statuses == {200, 300, 403, 404, 500}
FetchError == [raised |-> TRUE, status |-> 0]
Response(status) == [raised |-> FALSE, status |-> status]
\* Only an http url that names a host is answered; requests raises InvalidSchema
\* or InvalidURL (both RequestException) for another url.
Answered(parsed) ==
    /\ ~parsed.raised /\ parsed.scheme = <<"http">>
    /\ parsed.netloc # <<>> /\ Head(parsed.netloc) \in SchemeTokens
FetchOutcomes(url) ==
    IF Answered(UrlParse(url))
    THEN {FetchError} \cup {Response(st) : st \in Statuses}
    ELSE {FetchError}
BodyRead(outcome) == ~outcome.raised /\ outcome.status # 403 /\ ~RaiseForStatus(outcome.status)

Pages == SeqsUpTo(Elements, MaxElems)
SmallPages == SeqsUpTo(Elements, 1)
FaultySelectors == {"h1", "div[class*=company]", "div.job-description"}

Responses == SeqsUpTo(TextTokens, MaxTextLen)
JobsResponse == <<"{", "J", "}">>

ScalarValues == { JsonValue("number", <<>>), JsonValue("null", <<>>), JsonValue("string", <<>>),
                  JsonValue("string", <<"a", "b">>), JsonValue("object", <<>>),
                  JsonValue("object", <<"a">>) }
Entries == { Entry(hr, IF hr THEN RecsOfLen(n) ELSE <<>>, ht, IF ht THEN title ELSE <<>>,
                   hc, IF hc THEN company ELSE <<>>) :
             hr \in BOOLEAN, n \in 0..MaxRecs, ht \in BOOLEAN, title \in {<<>>, <<"T">>},
             hc \in BOOLEAN, company \in {<<>>, <<"C">>} }
           \cup {NotADict}
ListValues == { JsonValue("list", l) : l \in SeqsUpTo(Entries, MaxJobs) }

Filenames == { <<"c", ".", "p", "d", "f">>, <<"c", ".", "P", "D", "F">>, <<"c", ".", "t", "x", "t">>,
               <<"c", ".", "T", "x", "t">>, <<"c", ".", "d", "o", "c", "x">>, <<"c", "p", "d", "f">>,
               <<"c", ".", "p", "d", "f", ".", "x">>, <<"c", ".", "t", "x">>, <<>> }
TextResume == <<"c", ".", "t", "x", "t">>

NoResult == [kind |-> "none"]

\* The inputs no call of the drawn kind reads
NoScrapeInputs ==
    /\ job_url = <<>>
    /\ fetch = FetchError
    /\ doc = <<>>
    /\ faulty = "none"

NoResumeInputs ==
    /\ filename = TextResume
    /\ readOutcome = "ok"
    /\ job_links = "json"

NoBackendInputs ==
    /\ backend = "none"
    /\ text = <<>>
    /\ jobsValue = JsonValue("null", <<>>)

\* The url and the transport, over a page of at most one element
InitUrl ==
    /\ call = "scrape"
    /\ job_url \in Urls
    /\ fetch \in FetchOutcomes(job_url)
    /\ doc \in IF BodyRead(fetch) THEN SmallPages ELSE {<<>>}
    /\ faulty = "none"
    /\ NoResumeInputs /\ NoBackendInputs

\* The page, fetched from a url of each platform; a selector may raise on a
\* page of at most one element
InitPage ==
    /\ call = "scrape"
    /\ job_url \in PlatformUrls
    /\ fetch = Response(200)
    /\ \/ doc \in Pages /\ faulty = "none"
       \/ doc \in SmallPages /\ faulty \in FaultySelectors
    /\ NoResumeInputs /\ NoBackendInputs

\* The backend's behaviour and its response, over a few values of "jobs"
InitResponse ==
    /\ call = "analysis"
    /\ backend \in Backends
    /\ text \in IF backend = "text" THEN Responses ELSE {<<>>}
    /\ IF Contains(text, "J")
       THEN jobsValue \in ScalarValues \/ jobsValue = JsonValue("list", <<>>)
       ELSE jobsValue = JsonValue("null", <<>>)
    /\ NoScrapeInputs /\ NoResumeInputs

\* The value of "jobs", in a response that holds nothing else
InitJobs ==
    /\ call = "analysis"
    /\ backend = "text"
    /\ text = JobsResponse
    /\ jobsValue \in ListValues
    /\ NoScrapeInputs /\ NoResumeInputs

\* The uploaded resume and the job links
InitResume ==
    /\ call = "resume"
    /\ filename \in Filenames
    /\ readOutcome \in ReadOutcomes
    /\ job_links \in {"json", "garbage"}
    /\ backend \in Backends
    /\ text \in IF backend = "text" THEN {JobsResponse, <<"p">>} ELSE {<<>>}
    /\ jobsValue = JsonValue("list", <<Entry(FALSE, <<>>, TRUE, <<"T">>, TRUE, <<"C">>)>>)
    /\ NoScrapeInputs

\* The backend, for the cover-letter functions
InitLetter ==
    /\ call = "letter"
    /\ backend \in Backends
    /\ text \in IF backend = "text" THEN Responses ELSE {<<>>}
    /\ jobsValue = JsonValue("null", <<>>)
    /\ NoScrapeInputs /\ NoResumeInputs

Init ==
    /\ pc = "idle"
    /\ op = ""
    /\ result = NoResult
    /\ netCalls = 0
    /\ fileReads = 0
    /\ backendCalls = 0
    /\ parsedText = NotParsed
    /\ trace = <<>>
    /\ \/ InitUrl
       \/ InitPage
       \/ InitResponse
       \/ InitJobs
       \/ InitResume
       \/ InitLetter

----------------------------------------------------------------------------
(* The calls *)

inputs == <<call, job_url, fetch, doc, faulty, filename, readOutcome, job_links, backend, text, jobsValue>>

Soup == [elems |-> doc, faulty |-> faulty]

CallScrapeJobDescription ==
    /\ pc = "idle" /\ call = "scrape"
    /\ LET r == ScrapeJobDescription(job_url, fetch, Soup)
       IN  /\ result' = r.result
           /\ netCalls' = netCalls + r.requests
    /\ pc' = "done" /\ op' = "scrape_job_description"
    /\ UNCHANGED <<inputs, fileReads, backendCalls, parsedText, trace>>

CallExtractJobDetails ==
    /\ pc = "idle" /\ call = "scrape"
    /\ result' = ExtractDetails(Soup, job_url)
    /\ pc' = "done" /\ op' = "extract_job_details"
    /\ UNCHANGED <<inputs, netCalls, fileReads, backendCalls, parsedText, trace>>

CallGenerateAnalysis ==
    /\ pc = "idle" /\ call = "analysis"
    /\ LET r == GenerateAnalysisOf(backend, text, jobsValue)
       IN  /\ result' = r.result
           /\ backendCalls' = backendCalls + r.calls
           /\ parsedText' = r.parsed
           /\ trace' = r.trace
    /\ pc' = "done" /\ op' = "generate_analysis"
    /\ UNCHANGED <<inputs, netCalls, fileReads>>

CallGenerateResumeReview ==
    /\ pc = "idle" /\ call = "analysis"
    /\ LET r == GenerateResumeReviewOf(backend, text)
       IN  /\ result' = r.result
           /\ backendCalls' = backendCalls + r.calls
           /\ parsedText' = r.parsed
    /\ pc' = "done" /\ op' = "generate_resume_review"
    /\ UNCHANGED <<inputs, netCalls, fileReads, trace>>

CallAnalyzeResume ==
    /\ pc = "idle" /\ call \in {"analysis", "resume"}
    /\ LET r == AnalyzeResumeOf(filename, readOutcome, job_links, backend, text, jobsValue)
       IN  /\ result' = r.result
           /\ fileReads' = fileReads + r.reads
           /\ backendCalls' = backendCalls + r.calls
           /\ parsedText' = r.parsed
           /\ trace' = r.trace
    /\ pc' = "done" /\ op' = "analyze_resume"
    /\ UNCHANGED <<inputs, netCalls>>

CallGenerateCoverLetter ==
    /\ pc = "idle" /\ call = "letter"
    /\ LET r == GenerateCoverLetterOf(backend, text)
       IN  /\ result' = r.result
           /\ backendCalls' = backendCalls + r.calls
           /\ trace' = r.trace
    /\ pc' = "done" /\ op' = "generate_cover_letter"
    /\ UNCHANGED <<inputs, netCalls, fileReads, parsedText>>

CallGeminiGet ==
    /\ pc = "idle" /\ call = "letter"
    /\ LET r == GeminiGetOf(backend, text)
       IN  /\ result' = r.result
           /\ backendCalls' = backendCalls + r.calls
    /\ pc' = "done" /\ op' = "gemini_get"
    /\ UNCHANGED <<inputs, netCalls, fileReads, parsedText, trace>>

CallOptimizeCoverLetter ==
    /\ pc = "idle" /\ call = "letter"
    /\ LET r == OptimizeCoverLetterOf(backend, text)
       IN  /\ result' = r.result
           /\ backendCalls' = backendCalls + r.calls
    /\ pc' = "done" /\ op' = "optimize_cover_letter"
    /\ UNCHANGED <<inputs, netCalls, fileReads, parsedText, trace>>

Next ==
    \/ CallScrapeJobDescription
    \/ CallExtractJobDetails
    \/ CallGenerateAnalysis
    \/ CallGenerateResumeReview
    \/ CallAnalyzeResume
    \/ CallGenerateCoverLetter
    \/ CallGeminiGet
    \/ CallOptimizeCoverLetter

Spec == Init /\ [][Next]_vars

----------------------------------------------------------------------------
(* Claims *)

Done(f) == pc = "done" /\ op = f

\* C1: every job entry of a successful generate_analysis / analyze_resume
\* result holds at least 3 recommendations, whatever the backend emitted.
C1_AtLeastThreeRecommendations ==
    (pc = "done" /\ op \in {"generate_analysis", "analyze_resume"} /\ result.success
        /\ result.jobs.type = "list")
    => \A i \in 1..Len(result.jobs.items) : Len(result.jobs.items[i].recommendations) >= 3

\* C2: every public entry point returns a value and never raises, and an
\* exception of the backend is surfaced as {success: false, error: <message>}.
BackendFails == backend \in {"construct_raises", "generate_raises", "text_raises"}
GenerationEntryPoints == {"generate_analysis", "analyze_resume", "generate_resume_review",
                          "generate_cover_letter", "gemini_get", "optimize_cover_letter"}
C2_EveryEntryPointTotal ==
    pc = "done" =>
        /\ result.kind = "return"
        /\ (op \in GenerationEntryPoints /\ BackendFails)
           => (result.envelope /\ ~result.success /\ result.error # <<>>)

\* C3: for a url with a valid scheme, a fetch that does not end in a 2xx
\* response makes scrape_job_description return success = true with
\* requires_manual_entry = true and a manual-entry description.
ValidScheme(parsed) == ~parsed.raised /\ parsed.scheme # <<>>
FetchFailed == fetch.raised \/ fetch.status < 200 \/ fetch.status > 299
ManualEntryDescriptions == {ForbiddenDescription, NoDescription, RequestErrorDescription,
                            UnexpectedErrorDescription}
C3_FetchFailureIsSoftSuccess ==
    (Done("scrape_job_description") /\ ValidScheme(UrlParse(job_url)) /\ FetchFailed)
    => /\ result.kind = "return"
       /\ result.success
       /\ result.requires_manual_entry
       /\ result.description \in ManualEntryDescriptions

\* C4: for a url that is empty or has no scheme, scrape_job_description
\* returns {success: false, error: "Invalid URL provided"} and issues no
\* network request.
\* A url has a scheme when a ":" follows a non-empty run of scheme characters.
HasScheme(url) ==
    \E i \in 2..Len(url) : url[i] = ":" /\ \A j \in 1..(i - 1) : url[j] \in SchemeTokens
C4_NoSchemeIsInvalidUrl ==
    (Done("scrape_job_description") /\ ~HasScheme(job_url))
    => /\ result = ScrapeFailure(InvalidUrlError)
       /\ netCalls = 0

\* C5: title and company are each the trimmed text of the first selector, the
\* platform's selectors in listed order and then the generic ones, whose
\* element has non-empty trimmed text, else the field's sentinel; the platform
\* follows from the url alone.
SelectorsInOrder(url, table) ==
    (IF \E i \in 1..Len(url) : url[i] = "indeed.com" THEN table.indeed
     ELSE IF \E i \in 1..Len(url) : url[i] = "linkedin.com" THEN table.linkedin
     ELSE <<>>) \o table.generic
Yields(elems, sel) == SelectOne(elems, sel) # 0 /\ Strip(elems[SelectOne(elems, sel)].text) # <<>>
FirstYield(elems, sels, sentinel) ==
    IF \E i \in 1..Len(sels) : Yields(elems, sels[i])
    THEN LET i == CHOOSE k \in 1..Len(sels) : Yields(elems, sels[k]) /\ \A j \in 1..(k - 1) : ~Yields(elems, sels[j])
         IN  Strip(elems[SelectOne(elems, sels[i])].text)
    ELSE sentinel
C5_TwoTierCascade ==
    (Done("extract_job_details") /\ faulty = "none")
    => /\ result.job_title = FirstYield(doc, SelectorsInOrder(job_url, title_selectors), PositionNotFound)
       /\ result.company_name = FirstYield(doc, SelectorsInOrder(job_url, company_selectors), CompanyNotFound)
       /\ result.platform = (IF Contains(job_url, "indeed.com") THEN "Indeed"
                             ELSE IF Contains(job_url, "linkedin.com") THEN "LinkedIn" ELSE "Other")

\* C5 witness: a LinkedIn page that matches only the generic selector "h1"
\* yields the trimmed generic match, and the company its sentinel.
C5_GenericMatchOnly ==
    /\ Done("extract_job_details") /\ faulty = "none"
    /\ Contains(job_url, "linkedin.com")
    /\ \A i \in 1..Len(title_selectors.linkedin) : SelectOne(doc, title_selectors.linkedin[i]) = 0
    /\ SelectOne(doc, "h1") # 0
    /\ doc[SelectOne(doc, "h1")].text = <<" ", "B", " ">>
    /\ result.job_title = <<"B">>
    /\ result.company_name = CompanyNotFound
    /\ result.platform = "LinkedIn"

\* C6: extract_job_details always returns a record with a job title, a company
\* name and a platform; the sentinels stand where nothing matches, and an
\* exception raised by a selector's evaluation downgrades both fields to them.
NothingYields(elems, url, table) ==
    \A i \in 1..Len(SelectorsInOrder(url, table)) : ~Yields(elems, SelectorsInOrder(url, table)[i])
SelectorRaised ==
    Cascade(Soup, job_url, title_selectors).raised \/ Cascade(Soup, job_url, company_selectors).raised
ParsedResult == parsedText # NotParsed /\ ~JsonLoads(parsedText).raised
C7_InvalidStructureRejected ==
    (Done("generate_analysis") /\ ParsedResult
        /\ (~JsonLoads(parsedText).hasJobs \/ jobsValue.type # "list"))
    => result = Failure(<<"Invalid response structure">>)

\* C8: the text that is parsed is the first balanced {...} block of the
\* response, whatever surrounds it.
\* The braces of t[i..j] balance: t[i] opens, t[j] closes it, and no proper
\* prefix of the block is closed.
Excess(t, i, j) == Cardinality({m \in i..j : t[m] = "{"}) - Cardinality({m \in i..j : t[m] = "}"})
BalancedBlock(t, i, j) ==
    /\ i < j /\ t[i] = "{" /\ t[j] = "}"
    /\ Excess(t, i, j) = 0
    /\ \A m \in i..(j - 1) : Excess(t, i, m) > 0
HasBalancedBlock(t) == \E i, j \in 1..Len(t) : BalancedBlock(t, i, j)
FirstBalancedBlock(t) ==
    LET i == CHOOSE a \in 1..Len(t) :
                 /\ \E b \in 1..Len(t) : BalancedBlock(t, a, b)
                 /\ \A c \in 1..(a - 1) : ~\E b \in 1..Len(t) : BalancedBlock(t, c, b)
        j == CHOOSE b \in 1..Len(t) : BalancedBlock(t, i, b)
    IN  SubSeq(t, i, j)
C8_FirstBalancedBlockParsed ==
    (pc = "done" /\ op \in {"generate_analysis", "generate_resume_review"}
        /\ backend = "text" /\ HasBalancedBlock(text))
    => parsedText = FirstBalancedBlock(text)

\* C9: a response whose embedded JSON does not parse, and a response with no
\* JSON block, both end in the failure "Invalid response format"
\* (MalformedResponseError), not in the catch-all "Error generating analysis: ...".
EmbeddedJsonUnparsable(t) == RegexSearch(t).found /\ JsonLoads(RegexSearch(t).group).raised
C9_MalformedResponseError ==
    (pc = "done" /\ op \in {"generate_analysis", "analyze_resume"} /\ call = "analysis"
        /\ backend = "text" /\ text # <<>>
        /\ (~RegexSearch(text).found \/ EmbeddedJsonUnparsable(text)))
    => result = Failure(<<"Invalid response format">>)

\* C10: a resume whose filename ends in neither .pdf nor .txt, whatever the
\* case of its letters, makes analyze_resume return the unsupported-format
\* failure without reading the file.
UpperChar(c) ==
    CASE c = "p" -> "P" [] c = "d" -> "D" [] c = "f" -> "F" [] c = "t" -> "T" [] c = "x" -> "X"
      [] OTHER -> c
HasExtension(name, ext) ==
    /\ Len(name) >= Len(ext)
    /\ \A i \in 1..Len(ext) :
           name[Len(name) - Len(ext) + i] \in {ext[i], UpperChar(ext[i])}
C10_UnsupportedFormatNotRead ==
    (Done("analyze_resume") /\ ~HasExtension(filename, PdfSuffix) /\ ~HasExtension(filename, TxtSuffix))
    => /\ result = Failure(UnsupportedFormat)
       /\ fileReads = 0

\* C10 witness: a .docx resume was refused and its content never read.
C10_DocxRefused ==
    /\ Done("analyze_resume")
    /\ filename = <<"c", ".", "d", "o", "c", "x">>
    /\ result = Failure(UnsupportedFormat)
    /\ fileReads = 0

\* C11: a response holding a valid jobs array of n entries yields a successful
\* result of n entries in the same order, each equal to the backend's entry
\* but for the injected defaults.
RoundTrip == /\ pc = "done" /\ op \in {"generate_analysis", "analyze_resume"}
             /\ result.success /\ jobsValue.type = "list"
SameButDefaults(out, in, titleDefaulted, companyDefaulted) ==
    /\ out.isDict
    /\ out.match_percentage = in.match_percentage
    /\ out.recommendations = (IF ~in.hasRecs \/ in.recommendations = <<>> THEN FallbackRecommendations
                              ELSE in.recommendations)
    /\ out.job_title = (IF titleDefaulted THEN <<"Position">> ELSE in.job_title)
    /\ out.company_name = (IF companyDefaulted THEN <<"Company">> ELSE in.company_name)

\* C11 as stated: job_title / company_name are replaced by "Position" /
\* "Company" only when they are missing.
C11_DefaultsOnlyWhenMissing ==
    RoundTrip
    => /\ result.jobs.type = "list" /\ Len(result.jobs.items) = Len(jobsValue.items)
       /\ \A i \in 1..Len(jobsValue.items) :
              SameButDefaults(result.jobs.items[i], jobsValue.items[i],
                              ~jobsValue.items[i].hasTitle, ~jobsValue.items[i].hasCompany)

\* C11 as amended: job_title / company_name are replaced by "Position" /
\* "Company" when they are missing or empty.
C11_DefaultsWhenMissingOrEmpty ==
    RoundTrip
    => /\ result.jobs.type = "list" /\ Len(result.jobs.items) = Len(jobsValue.items)
       /\ \A i \in 1..Len(jobsValue.items) :
              SameButDefaults(result.jobs.items[i], jobsValue.items[i],
                              ~jobsValue.items[i].hasTitle \/ jobsValue.items[i].job_title = <<>>,
                              ~jobsValue.items[i].hasCompany \/ jobsValue.items[i].company_name = <<>>)

\* C11 witness: two entries came back in order, the first with the fallback
\* recommendations and its own title, the second with its own recommendations
\* and, its title being present but empty, the placeholder title.
C11_TwoEntriesRoundTrip ==
    /\ RoundTrip
    /\ Len(jobsValue.items) = 2 /\ Len(result.jobs.items) = 2
    /\ ~jobsValue.items[1].hasRecs /\ jobsValue.items[1].job_title = <<"T">>
    /\ result.jobs.items[1].recommendations = FallbackRecommendations
    /\ result.jobs.items[1].job_title = <<"T">>
    /\ Len(jobsValue.items[2].recommendations) = 2
    /\ jobsValue.items[2].hasTitle /\ jobsValue.items[2].job_title = <<>>
    /\ result.jobs.items[2].recommendations = jobsValue.items[2].recommendations
    /\ result.jobs.items[2].job_title = <<"Position">>

\* The paths of the state machine: Idle, Requested, one failure stage, Failed;
\* or Idle, Requested, ParsedOK, Normalized, Succeeded
FailureStages == {"BackendError", "EmptyResponse", "Malformed", "StructurallyInvalid"}
MachinePaths == { <<"Idle", "Requested", f, "Failed">> : f \in FailureStages }
                \cup { <<"Idle", "Requested", "ParsedOK", "Normalized", "Succeeded">> }
\* A request that yields plain text has nothing to parse or normalise, and one
\* whose backend cannot be constructed fails before it is requested
TextPaths == MachinePaths \cup { <<"Idle", "Requested", "Succeeded">>, <<"Idle", "BackendError", "Failed">> }
\* The stages of the generation request within the steps of a call
GenerationStages == IF op = "analyze_resume" /\ trace # <<>> /\ trace[1] = "decode"
                    THEN SubSeq(trace, 3, Len(trace))
                    ELSE trace

\* C12: every generation request follows the state machine: Idle, Requested
\* (the backend called at most once), then one failure stage and Failed, or
\* ParsedOK, Normalized and Succeeded; it ends in exactly one terminal state,
\* and Succeeded only when the call returned success.
C12_RequestFollowsStateMachine ==
    /\ Done("generate_analysis")
       => /\ trace \in MachinePaths
          /\ backendCalls <= 1
          /\ (trace[Len(trace)] = "Succeeded") = result.success
    /\ Done("generate_cover_letter")
       => /\ trace \in TextPaths
          /\ backendCalls <= 1
          /\ (trace[Len(trace)] = "Succeeded") = result.success
    /\ (Done("analyze_resume") /\ backendCalls > 0)
       => /\ GenerationStages \in MachinePaths
          /\ backendCalls <= 1

\* The page was fetched and parsed, and no description selector raised
DescriptionSelectorRaises == \E i \in 1..Len(description_selectors) : description_selectors[i] = faulty
PageFetched ==
    /\ Done("scrape_job_description")
    /\ job_url # <<>> /\ ValidScheme(UrlParse(job_url)) /\ BodyRead(fetch)
    /\ ~DescriptionSelectorRaises
Least(S) == CHOOSE x \in S : \A y \in S : x <= y
\* The description selectors that match an element of the page, the first
\* element a selector matches, the elements of given tags that hold a keyword
MatchingDescriptionSelectors ==
    { i \in 1..Len(description_selectors) : \E e \in 1..Len(doc) : Matches(description_selectors[i], doc[e]) }
FirstMatching(sel) == Least({ e \in 1..Len(doc) : Matches(sel, doc[e]) })
KeywordElements(tags) ==
    { e \in 1..Len(doc) : doc[e].tag \in tags /\ \E k \in description_keywords : Contains(Lower(doc[e].text), k) }
BlockLevelTags == {"div", "h1"}
\* The three tiers, the second yielding one of the given texts
ResolvedInTiers(byContent) ==
    /\ result.kind = "return" /\ result.success
    /\ IF MatchingDescriptionSelectors # {}
       THEN /\ result.description =
                   Strip(doc[FirstMatching(description_selectors[Least(MatchingDescriptionSelectors)])].text)
            /\ ~result.requires_manual_entry
       ELSE IF byContent # {}
       THEN result.description \in byContent /\ ~result.requires_manual_entry
       ELSE result.description = NoDescription /\ result.requires_manual_entry

Decoded == (HasExtension(filename, PdfSuffix) \/ HasExtension(filename, TxtSuffix)) /\ readOutcome = "ok"
InvalidJobLinks == <<"Invalid job links format">>
Position(s, x) == IF \E i \in 1..Len(s) : s[i] = x THEN Least({ i \in 1..Len(s) : s[i] = x }) ELSE 0

\* C14: analyze_resume decodes the resume, then parses job_links, and calls the
\* generation backend only after both succeeded; job_links that are not valid
\* JSON yield the failure "Invalid job links format" with no backend call, and
\* an unsupported resume format with invalid job_links yields the
\* unsupported-format failure.
C14_ValidationOrder ==
    Done("analyze_resume")
    => /\ Position(trace, "parse_links") # 0 => (Decoded /\ trace[1] = "decode" /\ trace[2] = "parse_links")
       /\ Position(trace, "Idle") # 0 => (Decoded /\ job_links = "json" /\ Position(trace, "Idle") = 3)
       /\ backendCalls > 0 => (Decoded /\ job_links = "json" /\ Position(trace, "Requested") = 4)
       /\ (Decoded /\ job_links # "json")
          => (result = Failure(InvalidJobLinks) /\ backendCalls = 0 /\ trace = <<"decode", "parse_links">>)
       /\ (~HasExtension(filename, PdfSuffix) /\ ~HasExtension(filename, TxtSuffix) /\ job_links # "json")
          => (result = Failure(UnsupportedFormat) /\ backendCalls = 0 /\ trace = <<>>)

\* C14 witness: a readable .txt resume with job_links that are not JSON was
\* refused after the decoding, before a backend that would have answered.
C14_InvalidLinksRefused ==
    /\ Done("analyze_resume")
    /\ filename = TextResume /\ readOutcome = "ok" /\ job_links = "garbage" /\ backend = "text"
    /\ result = Failure(InvalidJobLinks)
    /\ fileReads = 1 /\ backendCalls = 0
    /\ trace = <<"decode", "parse_links">>

====
